---- MODULE Spec2Model ----
(***************************************************************************)
(* Retrieval-and-ranking engine of the document question answering         *)
(* service: the vector store (server/services/vector_store.py) and the     *)
(* RAG engine's filter / score / diversify pipeline                         *)
(* (server/services/rag_engine.py).                                         *)
(*                                                                         *)
(* Numbers: similarity scores are kept in hundredths (0.3 is 30); quality   *)
(* and combined scores are exact fractions <<numerator, denominator>>.     *)
(***************************************************************************)
EXTENDS Integers, Sequences, FiniteSets, TLC

VARIABLES
    documents,      \* VectorStore.documents: document id -> metadata record
    chunks,         \* VectorStore.chunks: insertion-ordered dict, as a sequence
    chunk_counter,  \* VectorStore.chunk_counter
    index,          \* VectorStore.index: the vectors, in insertion order
    appended,       \* history: the chunk whose vector was appended at each position
    assigned,       \* history: the chunk ids in assignment order, with their counter
    failures,       \* history: the add_document calls that failed in the embedding step
    ret,            \* the last call: its name, arguments and outcome
    dimension,      \* VectorStore.dimension
    index_d,        \* VectorStore.index.d: the dimension of the index
    disk,           \* the files {filepath}.faiss and {filepath}.pkl of the one filepath
    calls           \* the calls in progress, one per thread: position and locals

vars == <<documents, chunks, chunk_counter, index, appended, assigned, failures, ret,
          dimension, index_d, disk, calls>>

store == <<documents, chunks, chunk_counter, index>>

persistence == <<dimension, index_d, disk>>

(***************************************************************************)
(* Bounds of the model.                                                    *)
(***************************************************************************)
\* add_document is not called once the chunk counter has reached MaxCounter
MaxCounter == 2
\* under search, add_document is not called once the index holds MaxVectors
MaxVectors == 3
\* the longest chunk list handed to one add_document call
MaxChunks == 2
\* the largest k handed to search
MaxK == 2
\* the embedding collaborator fails at most this often
MaxFailures == 1
\* the largest max_sources handed to query
MaxSources == 2
\* the longest candidate list handed to _ensure_diversity
MaxCandidates == 5
\* the longest list of document ids handed to compare_documents
MaxCompared == 2
\* the longest candidate list handed to _calculate_confidence
MaxRanked == 4
\* the largest max_sources of a query on the large store
MaxRequested == 6

(***************************************************************************)
(* Inputs.                                                                 *)
(***************************************************************************)
\* document ids; "d_1" looks like a chunk id of "d"
DocIds == {"d", "d_1"}

\* the chunk texts ingested (contents: see TextRuns)
IngestTexts == {"ml", "cook"}

\* the questions asked (contents: see QuestionWords)
Questions == {"q_ai", "q_rate"}

\* Sequences over S of length 0..n
SeqUpTo(S, n) == UNION {[1..m -> S] : m \in 0..n}

\* The document_ids argument of search and query: None, or a list of ids
None == [is_none |-> TRUE, ids |-> <<>>]
List(ids) == [is_none |-> FALSE, ids |-> ids]
DocFilters == {None, List(<<>>), List(<<"d", "d_1">>)} \cup {List(<<d>>) : d \in DocIds}

Range(s) == {s[i] : i \in DOMAIN s}

(***************************************************************************)
(* The embedding collaborator and the inner product, together: the score   *)
(* of a stored text against a question, in hundredths.  The model is        *)
(* deterministic: equal texts have equal vectors.                           *)
(***************************************************************************)
Similarity(q, t) ==
    CASE q = "q_ai"   /\ t = "ml"   -> 90
      [] q = "q_ai"   /\ t = "cook" -> 20
      [] q = "q_rate" /\ t = "ml"   -> 40
      [] q = "q_rate" /\ t = "cook" -> 50
      [] q = "q_ai"   /\ t = "ml2"       -> 85
      [] q = "q_ai"   /\ t = "high_ai"   -> 80
      [] q = "q_ai"   /\ t = "high_all"  -> 75
      [] q = "q_ai"   /\ t = "low_plain" -> 60
      [] q = "q_ai"   /\ t = "low_bonus" -> 55
      [] q = "q_ai"   /\ t = "low_half"  -> 50
      [] q = "q_ai"   /\ t = "fin"       -> 45
      [] q = "q_ai"   /\ t = "high_rate" -> 40
      [] OTHER -> 0

(***************************************************************************)
(* Texts and questions.  A text is named in the state and spelled here, in *)
(* lower case, as runs of whitespace-separated tokens: <<tok, n>> is the   *)
(* token tok written n times, single spaces between tokens and none around *)
(* the text.                                                               *)
(*   ml       machine learning techniques model the interest rate from 42  *)
(*            examples.                                                    *)
(*   ml2      the same, ending "samples."                                  *)
(*   mlshort  the first eight words of ml                                  *)
(*   cook     stir the onions in butter and simmer the broth slowly for    *)
(*            one hour                                                     *)
(*   fin      the interest rates rose, "report" 91 times, by 3 percent in  *)
(*            march.                                                       *)
(*   short    too short.                                                   *)
(*   empty    the empty text                                               *)
(* The questions:                                                          *)
(*   q_ai     artificial intelligence techniques                           *)
(*   q_rate   what is the interest rate                                    *)
(*   q_it     what is it                                                   *)
(*   q_twice  interest rate versus exchange rate                           *)
(* and, for the quality score, texts of 40 and of 150 words:               *)
(*   low_rep    "filler" 40 times                                          *)
(*   low_half   20 different words, each written twice                     *)
(*   low_plain  40 different words                                         *)
(*   low_bonus  what is 42, then 37 different words                        *)
(*   high_rate  rate interest, "filler" 147 times, end.                    *)
(*   high_ai    techniques intelligence artificial, "filler" 146 times,    *)
(*              end.                                                       *)
(*   high_all   artificial intelligence techniques what is the interest    *)
(*              rate 42, then 14 different words, each written ten times,  *)
(*              end.                                                       *)
(***************************************************************************)
Once(toks) == [i \in DOMAIN toks |-> <<toks[i], 1>>]

MlStem == <<"machine", "learning", "techniques", "model", "the", "interest", "rate", "from">>

\* letters for the words that fill a text
Letters == <<"a", "b", "c", "d", "e", "f", "g", "h", "i", "j", "k", "l", "m">>

\* n different words of three letters, none of them a word of a question, a
\* stop word or a numeral
DifferentWords(n) ==
    [i \in 1..n |-> "w" \o Letters[((i - 1) \div Len(Letters)) + 1]
                        \o Letters[((i - 1) % Len(Letters)) + 1]]

\* the names of the texts
TextNames == {"ml", "ml2", "mlshort", "cook", "fin", "short", "empty",
              "low_rep", "low_half", "low_plain", "low_bonus",
              "high_rate", "high_ai", "high_all"}

\* the texts, as runs of tokens
TextCatalogue ==
    [t \in TextNames |->
        CASE t = "ml"      -> Once(MlStem \o <<"42", "examples.">>)
          [] t = "ml2"     -> Once(MlStem \o <<"42", "samples.">>)
          [] t = "mlshort" -> Once(MlStem)
          [] t = "cook"    -> Once(<<"stir", "the", "onions", "in", "butter", "and", "simmer",
                                     "the", "broth", "slowly", "for", "one", "hour">>)
          [] t = "fin"     -> Once(<<"the", "interest", "rates", "rose">>) \o <<<<"report", 91>>>>
                                 \o Once(<<"by", "3", "percent", "in", "march.">>)
          [] t = "short"   -> Once(<<"too", "short.">>)
          [] t = "low_rep"   -> <<<<"filler", 40>>>>
          [] t = "low_half"  -> [i \in 1..20 |-> <<DifferentWords(20)[i], 2>>]
          [] t = "low_plain" -> Once(DifferentWords(40))
          [] t = "low_bonus" -> Once(<<"what", "is", "42">> \o DifferentWords(37))
          [] t = "high_rate" -> Once(<<"rate", "interest">>) \o <<<<"filler", 147>>>>
                                   \o Once(<<"end.">>)
          [] t = "high_ai"   -> Once(<<"techniques", "intelligence", "artificial">>)
                                   \o <<<<"filler", 146>>>> \o Once(<<"end.">>)
          [] t = "high_all"  -> Once(<<"artificial", "intelligence", "techniques", "what", "is",
                                       "the", "interest", "rate", "42">>)
                                   \o [i \in 1..14 |-> <<DifferentWords(14)[i], 10>>]
                                   \o Once(<<"end.">>)
          [] OTHER         -> <<>>]

TextRuns(t) == TextCatalogue[t]

\* the tokens that end in '.', '!' or '?'
TerminalTokens == {"examples.", "samples.", "march.", "short.", "end."}

\* the tokens that hold a digit
NumeralTokens == {"42", "3"}

\* <<tok, w>>: the word w is a proper prefix of the token tok
ProperPrefixes == {<<"rates", "rate">>, <<"examples.", "examples">>, <<"samples.", "samples">>,
                   <<"march.", "march">>, <<"short.", "short">>, <<"end.", "end">>}

StartsWith(tok, w) == tok = w \/ <<tok, w>> \in ProperPrefixes

\* no token of the texts ends in a word of the questions without being that word
EndsWith(tok, w) == tok = w

\* the questions, as text.lower().split() gives them; none holds a quoted phrase
QuestionWords(q) ==
    CASE q = "q_ai"   -> <<"artificial", "intelligence", "techniques">>
      [] q = "q_rate" -> <<"what", "is", "the", "interest", "rate">>
      [] q = "q_it"   -> <<"what", "is", "it">>
      [] q = "q_twice" -> <<"interest", "rate", "versus", "exchange", "rate">>
      [] OTHER -> <<>>

RECURSIVE SumRuns(_)
SumRuns(runs) == IF runs = <<>> THEN 0 ELSE Head(runs)[2] + SumRuns(Tail(runs))

RECURSIVE SumChars(_)
SumChars(runs) ==
    IF runs = <<>> THEN 0 ELSE Head(runs)[2] * Len(Head(runs)[1]) + SumChars(Tail(runs))

\* set(text.lower().split())
WordSets == [t \in TextNames |-> {TextRuns(t)[i][1] : i \in DOMAIN TextRuns(t)}]

TextWords(t) == WordSets[t]

\* len(text.split())
WordCount(t) == SumRuns(TextRuns(t))

\* len(text): the tokens and the spaces between them
CharLen(t) == IF WordCount(t) = 0 THEN 0 ELSE SumChars(TextRuns(t)) + WordCount(t) - 1

\* text.endswith('.') or text.endswith('!') or text.endswith('?')
EndsTerminal(t) ==
    TextRuns(t) /= <<>> /\ TextRuns(t)[Len(TextRuns(t))][1] \in TerminalTokens

\* re.search(r'\d+', text)
ContainsNumeral(t) == TextWords(t) \cap NumeralTokens /= {}

\* the pairs of tokens that stand next to each other in the text
AdjacentTokens(t) ==
    LET runs == TextRuns(t) IN
    {<<runs[i][1], runs[i][1]>> : i \in {j \in DOMAIN runs : runs[j][2] >= 2}}
    \cup {<<runs[i][1], runs[i + 1][1]>> : i \in 1..(Len(runs) - 1)}

\* phrase in text, for a phrase of two words: a substring of the text
ContainsPhrase(t, phrase) ==
    \E pair \in AdjacentTokens(t) :
        EndsWith(pair[1], phrase[1]) /\ StartsWith(pair[2], phrase[2])

(***************************************************************************)
(* VectorStore.                                                            *)
(***************************************************************************)
\* the dimension of the vectors of the embedding model all-MiniLM-L6-v2, the
\* default of the constructor
EmbeddingDimension == 384

\* the dimensions a store is built with: the default and another
Dimensions == {EmbeddingDimension, 768}

\* a file that does not exist
NoFile == [exists |-> FALSE]

\* no snapshot on disk
NoFiles == [faiss |-> NoFile, pkl |-> NoFile]

\* the threads that call the store
Threads == {"t1", "t2"}

\* no call in progress
NoCalls == [t \in Threads |-> [pc |-> "idle"]]

\* a store built with the defaults, nothing on disk, no call in progress
NothingElse ==
    /\ dimension = EmbeddingDimension
    /\ index_d = EmbeddingDimension
    /\ disk = NoFiles
    /\ calls = NoCalls

\* f"{document_id}_{self.chunk_counter}"
ChunkId(document_id, counter) == document_id \o "_" \o ToString(counter)

\* the keys of the chunk dict, in iteration order: list(self.chunks.keys())
ChunkKeys(cs) == [i \in DOMAIN cs |-> cs[i].chunk_id]

HasKey(cs, id) == \E i \in DOMAIN cs : cs[i].chunk_id = id

\* self.chunks[chunk_id]
Lookup(cs, id) == cs[CHOOSE i \in DOMAIN cs : cs[i].chunk_id = id]

\* self.chunks[chunk_id] = rec: a new key goes last, a known key keeps its place
DictSet(cs, rec) ==
    IF HasKey(cs, rec.chunk_id)
    THEN [i \in DOMAIN cs |-> IF cs[i].chunk_id = rec.chunk_id THEN rec ELSE cs[i]]
    ELSE Append(cs, rec)

\* the loop of add_document over the chunk texts, from counter value c:
\* the records it stores, in order
NewRecords(document_id, texts, c) ==
    [i \in DOMAIN texts |->
        [chunk_id |-> ChunkId(document_id, c + i - 1),
         document_id |-> document_id,
         text |-> texts[i],
         chunk_index |-> i - 1]]

RECURSIVE StoreAll(_, _)
StoreAll(cs, recs) ==
    IF recs = <<>> THEN cs ELSE StoreAll(DictSet(cs, Head(recs)), Tail(recs))

\* the record add_document writes for the document before it processes the chunks
FreshDocument(n) == [chunk_count |-> n, chunk_ids |-> <<>>]

\* self.documents[document_id] = rec
DocSet(docs, d, rec) == [x \in DOMAIN docs \cup {d} |-> IF x = d THEN rec ELSE docs[x]]

\* del self.documents[document_id]
DocDelNothing(docs, d) == docs

DocDel(docs, d) == [x \in DOMAIN docs \ {d} |-> docs[x]]

\* self.chunk_counter after the loop has assigned n ids
NextCounterOnce(c, n) == IF n > 0 THEN c + 1 ELSE c

NextCounter(c, n) == c + n

\* self.index.add(embeddings): one vector per text, in order
IndexAddFirst(idx, texts) == IF texts = <<>> THEN idx ELSE Append(idx, Head(texts))

IndexAdd(idx, texts) == idx \o texts

\* add_document(document_id, chunks): ok is whether the embedding collaborator
\* answers and the index takes its vectors, which it does not when its dimension
\* is not theirs; when either raises, the call ends there, after the records
\* were stored
AddDocument(d, texts, ok) ==
    LET recs == NewRecords(d, texts, chunk_counter)
        ids  == [i \in DOMAIN recs |-> recs[i].chunk_id]
        docs1 == DocSet(documents, d, FreshDocument(Len(texts)))
    IN  /\ ok \/ failures < MaxFailures
        /\ ok => index_d = EmbeddingDimension
        /\ UNCHANGED <<persistence, calls>>
        /\ chunks' = StoreAll(chunks, recs)
        /\ chunk_counter' = NextCounter(chunk_counter, Len(texts))
        /\ assigned' = assigned \o
              [i \in DOMAIN recs |-> [id |-> recs[i].chunk_id, n |-> chunk_counter + i - 1]]
        /\ IF ok
           THEN /\ index' = IndexAdd(index, texts)
                /\ appended' = appended \o recs
                /\ documents' = DocSet(docs1, d,
                        [docs1[d] EXCEPT !.chunk_ids = docs1[d].chunk_ids \o ids])
                /\ failures' = failures
                /\ ret' = [op |-> "add_document", document_id |-> d,
                           out |-> "return", value |-> Len(texts)]
           ELSE /\ index' = index
                /\ appended' = appended
                /\ documents' = docs1
                /\ failures' = failures + 1
                /\ ret' = [op |-> "add_document", document_id |-> d,
                           out |-> "raise", value |-> 0]

\* the chunk records that remain after remove_document's loop over chunk_ids
RemoveChunksOfDocument(cs, d, ids) == SelectSeq(cs, LAMBDA r : r.document_id /= d)

RemoveChunks(cs, d, ids) == SelectSeq(cs, LAMBDA r : r.chunk_id \notin Range(ids))

\* remove_document(document_id)
RemoveDocument(d) ==
    /\ IF d \notin DOMAIN documents
       THEN /\ UNCHANGED <<documents, chunks>>
            /\ ret' = [op |-> "remove_document", document_id |-> d,
                       out |-> "return", value |-> FALSE]
       ELSE /\ chunks' = RemoveChunks(chunks, d, documents[d].chunk_ids)
            /\ documents' = DocDel(documents, d)
            /\ ret' = [op |-> "remove_document", document_id |-> d,
                       out |-> "return", value |-> TRUE]
    /\ UNCHANGED <<chunk_counter, index, appended, assigned, failures>>
    /\ UNCHANGED <<persistence, calls>>

\* get_document_chunks(document_id): a list, or a KeyError
GetDocumentChunksResult(d) ==
    IF d \notin DOMAIN documents
    THEN [out |-> "return", value |-> <<>>]
    ELSE LET ids == documents[d].chunk_ids IN
         IF \A i \in DOMAIN ids : HasKey(chunks, ids[i])
         THEN [out |-> "return",
               value |-> [i \in DOMAIN ids |->
                            [chunk_id |-> ids[i], text |-> Lookup(chunks, ids[i]).text]]]
         ELSE [out |-> "raise", value |-> <<>>]

GetDocumentChunks(d) ==
    /\ ret' = [op |-> "get_document_chunks", document_id |-> d] @@ GetDocumentChunksResult(d)
    /\ UNCHANGED <<documents, chunks, chunk_counter, index, appended, assigned, failures>>
    /\ UNCHANGED <<persistence, calls>>

\* the last call was op and it returned
Returned(op) == ret.op = op /\ ret.out = "return"

\* get_stats()
GetStats ==
    [total_documents |-> Cardinality(DOMAIN documents),
     total_chunks |-> Len(chunks),
     index_size |-> Len(index),
     dimension |-> dimension]

LedgerWithoutCounter ==
    [exists |-> TRUE, documents |-> documents, chunks |-> chunks,
     chunk_counter |-> 0, dimension |-> dimension, assigned |-> assigned]

\* the metadata dict save pickles into {filepath}.pkl (with it the history of
\* the ids assigned up to the counter it records)
Ledger ==
    [exists |-> TRUE, documents |-> documents, chunks |-> chunks,
     chunk_counter |-> chunk_counter, dimension |-> dimension, assigned |-> assigned]

\* what faiss.write_index writes into {filepath}.faiss: the index, its dimension
\* and its vectors (with them the history of the chunks they were made from)
IndexFile ==
    [exists |-> TRUE, d |-> index_d, vectors |-> index, appended |-> appended]

\* save(filepath): ok is whether the ledger file can be opened for writing; when
\* it cannot, the call raises after the index file was written
Save(ok) ==
    /\ disk' = IF ok THEN [faiss |-> IndexFile, pkl |-> Ledger]
                      ELSE [disk EXCEPT !.faiss = IndexFile]
    /\ ret' = [op |-> "save", out |-> IF ok THEN "return" ELSE "raise"]
    /\ UNCHANGED <<documents, chunks, chunk_counter, index, appended, assigned, failures>>
    /\ UNCHANGED <<dimension, index_d, calls>>

\* load(filepath): a missing file raises; the index is replaced before the
\* ledger file is opened.  after_save: the call before was a save that returned
Load ==
    /\ IF ~disk.faiss.exists
       THEN /\ ret' = [op |-> "load", out |-> "raise", after_save |-> Returned("save")]
            /\ UNCHANGED <<documents, chunks, chunk_counter, index, appended, dimension, index_d>>
            /\ UNCHANGED assigned
       ELSE /\ index' = disk.faiss.vectors
            /\ index_d' = disk.faiss.d
            /\ appended' = disk.faiss.appended
            /\ IF ~disk.pkl.exists
               THEN /\ ret' = [op |-> "load", out |-> "raise", after_save |-> Returned("save")]
                    /\ UNCHANGED <<documents, chunks, chunk_counter, dimension, assigned>>
               ELSE /\ documents' = disk.pkl.documents
                    /\ assigned' = disk.pkl.assigned
                    /\ chunks' = disk.pkl.chunks
                    /\ chunk_counter' = disk.pkl.chunk_counter
                    /\ dimension' = disk.pkl.dimension
                    /\ ret' = [op |-> "load", out |-> "return", after_save |-> Returned("save")]
    /\ UNCHANGED <<failures, disk, calls>>

\* VectorStore(dimension = d): a new store takes the place of the old one; the
\* files stay
Construct(d) ==
    /\ dimension' = d
    /\ index_d' = d
    /\ index' = <<>>
    /\ documents' = <<>>
    /\ chunks' = <<>>
    /\ chunk_counter' = 0
    /\ appended' = <<>>
    /\ assigned' = <<>>
    /\ failures' = 0
    /\ ret' = [op |-> "__init__", dimension |-> d]
    /\ UNCHANGED <<disk, calls>>

\* bool(document_ids): None and the empty list do not filter
Filters(document_ids) == ~document_ids.is_none /\ document_ids.ids /= <<>>

Min(a, b) == IF a <= b THEN a ELSE b

\* self.index.search(query_embedding, kk), kk >= 1: the position lists the flat
\* inner-product scan may return, best score first; the order of equal scores is
\* the library's
RECURSIVE IndexScan(_, _, _, _)
IndexScan(idx, q, kk, taken) ==
    IF kk = 0 THEN {<<>>}
    ELSE LET rest == DOMAIN idx \ taken
             best == {p \in rest : \A r \in rest : Similarity(q, idx[p]) >= Similarity(q, idx[r])}
         IN  UNION {{<<p>> \o s : s \in IndexScan(idx, q, kk - 1, taken \cup {p})} : p \in best}

IndexSearch(idx, q, kk) == IndexScan(idx, q, kk, {})

\* the loop of search over the hits: position p of the index is list element
\* p - 1, looked up in the current key list of the chunk dict
RECURSIVE SearchLoopNoBreak(_, _, _, _, _, _, _)
SearchLoopNoBreak(cs, idx, q, k, document_ids, hits, results) ==
    IF hits = <<>> THEN [out |-> "return", value |-> results]
    ELSE LET p == Head(hits)
             chunk_id_list == ChunkKeys(cs)
         IN
         IF p > Len(chunk_id_list) THEN [out |-> "raise", value |-> <<>>]
         ELSE LET chunk_data == Lookup(cs, chunk_id_list[p]) IN
              IF Filters(document_ids) /\ chunk_data.document_id \notin Range(document_ids.ids)
              THEN SearchLoopNoBreak(cs, idx, q, k, document_ids, Tail(hits), results)
              ELSE SearchLoopNoBreak(cs, idx, q, k, document_ids, Tail(hits),
                        Append(results,
                            [chunk_id |-> chunk_data.chunk_id,
                             document_id |-> chunk_data.document_id,
                             text |-> chunk_data.text,
                             score |-> Similarity(q, idx[p]),
                             position |-> p]))

RECURSIVE SearchLoop(_, _, _, _, _, _, _)
SearchLoop(cs, idx, q, k, document_ids, hits, results) ==
    IF hits = <<>> THEN [out |-> "return", value |-> results]
    ELSE LET p == Head(hits)
             chunk_id_list == ChunkKeys(cs)
         IN
         IF p > Len(chunk_id_list) THEN [out |-> "raise", value |-> <<>>]
         ELSE LET chunk_data == Lookup(cs, chunk_id_list[p]) IN
              IF Filters(document_ids) /\ chunk_data.document_id \notin Range(document_ids.ids)
              THEN SearchLoop(cs, idx, q, k, document_ids, Tail(hits), results)
              ELSE LET r == Append(results,
                                [chunk_id |-> chunk_data.chunk_id,
                                 document_id |-> chunk_data.document_id,
                                 text |-> chunk_data.text,
                                 score |-> Similarity(q, idx[p]),
                                 position |-> p])
                   IN IF Len(r) >= k THEN [out |-> "return", value |-> r]
                      ELSE SearchLoop(cs, idx, q, k, document_ids, Tail(hits), r)

\* search(query, k, document_ids): every outcome the call can have.  A scan for
\* zero neighbours (k = 0, or an empty index) raises in the library versions that
\* assert k > 0 and returns nothing in the others.
SearchOutcomes(cs, idx, q, k, document_ids) ==
    LET kk == Min(k * 2, Len(idx)) IN
    IF kk = 0
    THEN {[out |-> "raise", value |-> <<>>], [out |-> "return", value |-> <<>>]}
    ELSE {SearchLoop(cs, idx, q, k, document_ids, hits, <<>>) : hits \in IndexSearch(idx, q, kk)}

Search(q, k, document_ids) ==
    /\ \E o \in SearchOutcomes(chunks, index, q, k, document_ids) :
          ret' = [op |-> "search", question |-> q, k |-> k, document_ids |-> document_ids,
                  out |-> o.out, value |-> o.value]
    /\ UNCHANGED <<documents, chunks, chunk_counter, index, appended, assigned, failures>>
    /\ UNCHANGED <<persistence, calls>>

(***************************************************************************)
(* RAGEngine: the ranker.  Fractions are pairs <<n, d>> with d > 0, kept   *)
(* in lowest terms; they stand for the floating point values of the code.  *)
(***************************************************************************)
\* self.min_relevance_score, in hundredths
MinRelevanceScore == 30
\* self.max_sources
EngineMaxSources == 5
\* the least length of a chunk's trimmed text
MinTextChars == 50
\* similarity_threshold of _ensure_diversity, in tenths
SimilarityThreshold == 8

Abs(x) == IF x < 0 THEN -x ELSE x

RECURSIVE GCD(_, _)
GCD(a, b) == IF b = 0 THEN a ELSE GCD(b, a % b)

Frac(n, d) == LET g == GCD(Abs(n), d) IN <<n \div g, d \div g>>

FracAdd(a, b) == Frac(a[1] * b[2] + b[1] * a[2], a[2] * b[2])

FracMul(a, b) == Frac(a[1] * b[1], a[2] * b[2])

FracLess(a, b) == a[1] * b[2] < b[1] * a[2]

StopWords ==
    {"a", "an", "the", "and", "or", "but", "is", "are", "was", "were",
     "be", "been", "being", "in", "on", "at", "to", "for", "with", "by",
     "about", "like", "through", "over", "before", "after", "between",
     "under", "above", "of", "during", "what", "when", "where", "why",
     "how", "all", "any", "both", "each", "few", "more", "most", "some",
     "such", "no", "nor", "not", "only", "own", "same", "so", "than",
     "too", "very", "can", "will", "just", "should", "now"}

\* _extract_keywords(question): the words that are no stop words and longer than
\* two characters, repetitions kept
ExtractKeywords(q) ==
    SelectSeq(QuestionWords(q), LAMBDA w : w \notin StopWords /\ Len(w) > 2)

\* _extract_phrases(question): the two-word phrases that do not start with one
\* of the listed words
ExtractPhrases(q) ==
    LET words == QuestionWords(q) IN
    {<<words[i], words[i + 1]>> :
        i \in {j \in 1..(Len(words) - 1) :
                 words[j] \notin {"a", "an", "the", "in", "on", "at", "by", "for", "with"}}}

\* the question holds 'how many', 'how much', 'number', 'amount', 'percentage' or
\* 'rate' (as a substring)
AsksForNumber(q) ==
    LET words == QuestionWords(q) IN
    \/ \E i \in DOMAIN words : words[i] \in {"number", "amount", "percentage", "rate"}
    \/ \E i \in 1..(Len(words) - 1) :
          EndsWith(words[i], "how") /\ (StartsWith(words[i + 1], "many") \/ StartsWith(words[i + 1], "much"))

LengthBonusNone(text_len) == 0

\* the bonus for the chunk's length in words, in tenths
LengthBonus(text_len) ==
    IF 100 <= text_len /\ text_len <= 300 THEN 3
    ELSE IF (50 <= text_len /\ text_len < 100) \/ (300 < text_len /\ text_len <= 500) THEN 2
    ELSE IF text_len < 50 THEN -1
    ELSE 0

\* the keyword term of the quality score:
\* (keyword_overlap / len(question_keywords)) * 0.4, where keyword_overlap counts
\* the elements of the keyword list that are words of the text
KeywordOverlap(t, q) ==
    LET keywords == ExtractKeywords(q)
        keyword_overlap == Cardinality({i \in DOMAIN keywords : keywords[i] \in TextWords(t)})
    IN  IF keywords /= <<>> THEN Frac(4 * keyword_overlap, 10 * Len(keywords))
        ELSE <<0, 1>>

\* _calculate_quality_score(chunk, question, question_keywords)
CalculateQualityScore(t, q) ==
    LET overlap == KeywordOverlap(t, q)
        complete == IF EndsTerminal(t) THEN 1 ELSE 0
        density == IF WordCount(t) > 0 THEN Frac(2 * Cardinality(TextWords(t)), 10 * WordCount(t))
                   ELSE <<0, 1>>
        phrase == IF \E p \in ExtractPhrases(q) : ContainsPhrase(t, p) THEN 2 ELSE 0
        numeric == IF AsksForNumber(q) /\ ContainsNumeral(t) THEN 2 ELSE 0
        score == FracAdd(FracAdd(overlap, density),
                         Frac(LengthBonus(WordCount(t)) + complete + phrase + numeric, 10))
    IN  IF FracLess(<<1, 1>>, score) THEN <<1, 1>> ELSE score

\* the quality score of every text of the catalogue under every question
QualityScores == [t \in TextNames, q \in Questions |-> CalculateQualityScore(t, q)]

\* x['score'] * 0.6 + x['quality_score'] * 0.4
CombinedScore(c) == FracAdd(Frac(6 * c.score, 1000), FracMul(<<4, 10>>, c.quality_score))

TooSimilarNinety(t1, t2) ==
    LET words1 == TextWords(t1)
        words2 == TextWords(t2)
    IN  /\ words1 /= {} /\ words2 /= {}
        /\ 10 * Cardinality(words1 \cap words2) > 9 * Cardinality(words1 \cup words2)

\* _calculate_text_similarity(text1, text2) > similarity_threshold
TooSimilar(t1, t2) ==
    LET words1 == TextWords(t1)
        words2 == TextWords(t2)
    IN  /\ words1 /= {} /\ words2 /= {}
        /\ 10 * Cardinality(words1 \cap words2) > SimilarityThreshold * Cardinality(words1 \cup words2)

\* the loop of _ensure_diversity over chunks[1:]
RECURSIVE DiversityLoopLastOnly(_, _)
DiversityLoopLastOnly(rest, diverse_chunks) ==
    IF rest = <<>> THEN diverse_chunks
    ELSE LET chunk == Head(rest)
             too_similar == TooSimilar(chunk.text, diverse_chunks[Len(diverse_chunks)].text)
             kept == IF too_similar THEN diverse_chunks ELSE Append(diverse_chunks, chunk)
         IN  IF Len(kept) >= EngineMaxSources THEN kept
             ELSE DiversityLoopLastOnly(Tail(rest), kept)

RECURSIVE DiversityLoop(_, _)
DiversityLoop(rest, diverse_chunks) ==
    IF rest = <<>> THEN diverse_chunks
    ELSE LET chunk == Head(rest)
             too_similar == \E i \in DOMAIN diverse_chunks :
                                TooSimilar(chunk.text, diverse_chunks[i].text)
             kept == IF too_similar THEN diverse_chunks ELSE Append(diverse_chunks, chunk)
         IN  IF Len(kept) >= EngineMaxSources THEN kept
             ELSE DiversityLoop(Tail(rest), kept)

\* _ensure_diversity(chunks)
EnsureDiversity(cs) ==
    IF cs = <<>> THEN <<>> ELSE DiversityLoop(Tail(cs), <<Head(cs)>>)

\* list.sort(key, reverse=True): stable, the greatest key first
RECURSIVE InsertByKey(_, _)
InsertByKey(sorted, c) ==
    IF sorted = <<>> THEN <<c>>
    ELSE IF FracLess(CombinedScore(Head(sorted)), CombinedScore(c))
         THEN <<c>> \o sorted
         ELSE <<Head(sorted)>> \o InsertByKey(Tail(sorted), c)

KeepOrder(cs) == cs

RECURSIVE SortByCombined(_)
SortByCombined(cs) ==
    IF cs = <<>> THEN <<>>
    ELSE InsertByKey(SortByCombined(SubSeq(cs, 1, Len(cs) - 1)), cs[Len(cs)])

\* the results _filter_chunks keeps, each with its quality score
Relevant(search_results, q) ==
    LET kept == SelectSeq(search_results,
                    LAMBDA r : r.score >= MinRelevanceScore /\ CharLen(r.text) >= MinTextChars)
    IN  [i \in DOMAIN kept |->
            [chunk_id |-> kept[i].chunk_id, document_id |-> kept[i].document_id,
             text |-> kept[i].text, score |-> kept[i].score,
             quality_score |-> QualityScores[kept[i].text, q]]]

\* _filter_chunks(search_results, question)
FilterChunks(search_results, q) == EnsureDiversity(SortByCombined(Relevant(search_results, q)))

(***************************************************************************)
(* RAGEngine: the orchestrator.                                            *)
(***************************************************************************)
\* lst[:n], n >= 0
Take(lst, n) == SubSeq(lst, 1, Min(n, Len(lst)))

RECURSIVE SumScores(_)
SumScores(cs) == IF cs = <<>> THEN 0 ELSE Head(cs).score + SumScores(Tail(cs))

RECURSIVE SumQuality(_)
SumQuality(cs) ==
    IF cs = <<>> THEN <<0, 1>> ELSE FracAdd(Head(cs).quality_score, SumQuality(Tail(cs)))

\* round(x, 3), in thousandths
Round3(x) == (2000 * x[1] + x[2]) \div (2 * x[2])

CalculateConfidenceUncapped(cs) ==
    IF cs = <<>> THEN 0
    ELSE LET avg_score == Frac(SumScores(cs), 100 * Len(cs))
             source_factor == Frac(Len(cs), 3)
             avg_quality == FracMul(SumQuality(cs), <<1, Len(cs)>>)
         IN  Round3(FracAdd(FracAdd(FracMul(<<6, 10>>, avg_score), FracMul(<<2, 10>>, source_factor)),
                            FracMul(<<2, 10>>, avg_quality)))

\* _calculate_confidence(chunks), in thousandths
CalculateConfidence(cs) ==
    IF cs = <<>> THEN 0
    ELSE LET avg_score == Frac(SumScores(cs), 100 * Len(cs))
             source_factor == IF Len(cs) >= 3 THEN <<1, 1>> ELSE Frac(Len(cs), 3)
             avg_quality == FracMul(SumQuality(cs), <<1, Len(cs)>>)
         IN  Round3(FracAdd(FracAdd(FracMul(<<6, 10>>, avg_score), FracMul(<<2, 10>>, source_factor)),
                            FracMul(<<2, 10>>, avg_quality)))

\* _format_sources(chunks): the text is cut after 200 characters
FormatSources(cs) ==
    [i \in DOMAIN cs |->
        [document_id |-> cs[i].document_id,
         chunk_content |-> cs[i].text,
         cut |-> CharLen(cs[i].text) > 200,
         relevance |-> cs[i].score]]

EngineSearchSwallows(cs, idx, q, k, document_ids, embed_ok) ==
    IF embed_ok THEN SearchOutcomes(cs, idx, q, k, document_ids)
    ELSE {[out |-> "return", value |-> <<>>]}

\* self.vector_store.search(question, k, document_ids) as the engine calls it:
\* embed_ok is whether the embedding collaborator answers; when it raises, the
\* search raises before it reads the index
EngineSearch(cs, idx, q, k, document_ids, embed_ok) ==
    IF embed_ok THEN SearchOutcomes(cs, idx, q, k, document_ids)
    ELSE {[out |-> "raise", value |-> <<>>]}

\* the except branch of query without the sources
DegradedNoSources(relevant_chunks) ==
    [out |-> "return", answer |-> "error", sources |-> <<>>, confidence |-> 0,
     error |-> TRUE, ranked |-> relevant_chunks, generate_calls |-> 1]

\* the except branch of query: the generation collaborator raised
Degraded(relevant_chunks) ==
    [out |-> "return", answer |-> "error",
     sources |-> FormatSources(relevant_chunks), confidence |-> 0,
     error |-> TRUE, ranked |-> relevant_chunks, generate_calls |-> 1]

InsufficientAfterGenerate ==
    [out |-> "return", answer |-> "insufficient", sources |-> <<>>, confidence |-> 0,
     error |-> FALSE, ranked |-> <<>>, generate_calls |-> 1]

\* the response of query when the ranking leaves no candidate
Insufficient ==
    [out |-> "return", answer |-> "insufficient", sources |-> <<>>, confidence |-> 0,
     error |-> FALSE, ranked |-> <<>>, generate_calls |-> 0]

\* query(question, document_ids, mode, max_sources) after the search has ended
\* with outcome o: llm_ok is whether the generation collaborator answers
QueryResult(o, q, max_sources, llm_ok) ==
    IF o.out = "raise"
    THEN [out |-> "raise", ranked |-> <<>>, generate_calls |-> 0]
    ELSE LET relevant_chunks == Take(FilterChunks(o.value, q), max_sources) IN
         IF relevant_chunks = <<>>
         THEN Insufficient
         ELSE IF llm_ok
         THEN [out |-> "return", answer |-> "generated",
               sources |-> FormatSources(relevant_chunks),
               confidence |-> CalculateConfidence(relevant_chunks),
               error |-> FALSE, ranked |-> relevant_chunks, generate_calls |-> 1]
         ELSE Degraded(relevant_chunks)

\* query(question, document_ids, mode, max_sources): ranked is the list
\* relevant_chunks the response was built from
Query(q, document_ids, max_sources, embed_ok, llm_ok) ==
    /\ \E o \in EngineSearch(chunks, index, q, max_sources * 3, document_ids, embed_ok) :
          ret' = [op |-> "query", question |-> q, document_ids |-> document_ids,
                  max_sources |-> max_sources, embed_ok |-> embed_ok, llm_ok |-> llm_ok,
                  search_out |-> o.out]
                 @@ QueryResult(o, q, max_sources, llm_ok)
    /\ UNCHANGED <<documents, chunks, chunk_counter, index, appended, assigned, failures>>
    /\ UNCHANGED <<persistence, calls>>

\* k of the search compare_documents makes for each document
CompareK == 5
\* the candidates compare_documents keeps for each document
ComparePerDocument == 3

TooFewDocumentsNever(document_ids) == FALSE

\* len(document_ids) < 2
TooFewDocuments(document_ids) == Len(document_ids) < 2

\* the loop of compare_documents over document_ids: every way it can end, with
\* doc_results, all_sources and the number of searches made
RECURSIVE CompareSearches(_, _, _, _, _, _)
CompareSearches(cs, idx, q, ids, embed_ok, acc) ==
    IF ids = <<>> THEN {[out |-> "return"] @@ acc}
    ELSE UNION {
        IF o.out = "raise"
        THEN {[out |-> "raise", doc_results |-> acc.doc_results,
               all_sources |-> acc.all_sources, search_calls |-> acc.search_calls + 1]}
        ELSE LET filtered == Take(FilterChunks(o.value, q), ComparePerDocument) IN
             CompareSearches(cs, idx, q, Tail(ids), embed_ok,
                 [doc_results |-> DocSet(acc.doc_results, Head(ids), filtered),
                  all_sources |-> acc.all_sources \o filtered,
                  search_calls |-> acc.search_calls + 1])
        : o \in EngineSearch(cs, idx, q, CompareK, List(<<Head(ids)>>), embed_ok)}

\* the except branch of compare_documents: the generation collaborator raised
CompareDegraded(all_sources) ==
    [out |-> "return", answer |-> "error", sources |-> FormatSources(all_sources),
     confidence |-> 0, mode |-> "comparison", error |-> TRUE, ranked |-> all_sources,
     generate_calls |-> 1]

\* compare_documents(question, document_ids) after its searches have ended as s
CompareResult(s, llm_ok) ==
    IF s.out = "raise"
    THEN [out |-> "raise", ranked |-> <<>>, generate_calls |-> 0]
    ELSE IF \A d \in DOMAIN s.doc_results : s.doc_results[d] = <<>>
    THEN [out |-> "return", answer |-> "no_relevant", sources |-> <<>>, confidence |-> 0,
          mode |-> "comparison", error |-> FALSE, ranked |-> <<>>, generate_calls |-> 0]
    ELSE IF llm_ok
    THEN [out |-> "return", answer |-> "generated", sources |-> FormatSources(s.all_sources),
          confidence |-> CalculateConfidence(s.all_sources), mode |-> "comparison",
          error |-> FALSE, ranked |-> s.all_sources, generate_calls |-> 1]
    ELSE CompareDegraded(s.all_sources)

\* compare_documents(question, document_ids): ranked is the list all_sources
CompareDocuments(q, document_ids, embed_ok, llm_ok) ==
    /\ IF TooFewDocuments(document_ids)
       THEN ret' = [op |-> "compare_documents", question |-> q,
                    document_ids |-> document_ids, embed_ok |-> embed_ok,
                    llm_ok |-> llm_ok,
                    out |-> "return", answer |-> "need_two", sources |-> <<>>,
                    confidence |-> 0, mode |-> "comparison", error |-> FALSE,
                    ranked |-> <<>>, search_calls |-> 0, generate_calls |-> 0]
       ELSE \E s \in CompareSearches(chunks, index, q, document_ids, embed_ok,
                        [doc_results |-> <<>>, all_sources |-> <<>>, search_calls |-> 0]) :
               ret' = [op |-> "compare_documents", question |-> q,
                       document_ids |-> document_ids, embed_ok |-> embed_ok,
                       llm_ok |-> llm_ok, search_calls |-> s.search_calls]
                      @@ CompareResult(s, llm_ok)
    /\ UNCHANGED <<documents, chunks, chunk_counter, index, appended, assigned, failures>>
    /\ UNCHANGED <<persistence, calls>>

\* _calculate_confidence(chunks), called on the candidate list the state holds
CalculateConfidenceCall ==
    /\ ret.op = "ranked"
    /\ ret' = [op |-> "_calculate_confidence", chunks |-> ret.chunks,
               value |-> CalculateConfidence(ret.chunks)]
    /\ UNCHANGED <<documents, chunks, chunk_counter, index, appended, assigned, failures>>
    /\ UNCHANGED <<persistence, calls>>

\* _calculate_quality_score(chunk, question, question_keywords), called as the
\* loop of _filter_chunks calls it: on each chunk of the pair the state holds,
\* under the one question
CalculateQualityScoreCall ==
    /\ ret.op = "scored_pair"
    /\ ret' = [op |-> "_calculate_quality_score", question |-> ret.question,
               chunks |-> ret.chunks,
               overlap |-> [i \in DOMAIN ret.chunks |->
                              KeywordOverlap(ret.chunks[i].text, ret.question)],
               value |-> [i \in DOMAIN ret.chunks |->
                            CalculateQualityScore(ret.chunks[i].text, ret.question)]]
    /\ UNCHANGED <<documents, chunks, chunk_counter, index, appended, assigned, failures>>
    /\ UNCHANGED <<persistence, calls>>

\* _ensure_diversity(chunks), called on the candidate list the state holds
EnsureDiversityCall ==
    /\ ret.op = "candidates"
    /\ ret' = [op |-> "_ensure_diversity", chunks |-> ret.chunks,
               value |-> EnsureDiversity(ret.chunks)]
    /\ UNCHANGED <<documents, chunks, chunk_counter, index, appended, assigned, failures>>
    /\ UNCHANGED <<persistence, calls>>

Init ==
    /\ NothingElse
    /\ documents = <<>>
    /\ chunks = <<>>
    /\ chunk_counter = 0
    /\ index = <<>>
    /\ appended = <<>>
    /\ assigned = <<>>
    /\ failures = 0
    /\ ret = [op |-> "init"]

(***************************************************************************)
(* The store: ingestion, removal and the chunk listing.                    *)
(***************************************************************************)
Next ==
    \/ \E d \in DocIds, texts \in SeqUpTo(IngestTexts, MaxChunks), ok \in BOOLEAN :
            chunk_counter + Len(texts) <= MaxCounter /\ AddDocument(d, texts, ok)
    \/ \E d \in DocIds : RemoveDocument(d)
    \/ \E d \in DocIds : GetDocumentChunks(d)

Spec == Init /\ [][Next]_vars

(***************************************************************************)
(* The store under search, with an embedding collaborator that answers.    *)
(* A search leaves the store as it is, so the calls that follow it are the *)
(* calls that could have been made in its place: they are taken from the   *)
(* state before it.                                                        *)
(***************************************************************************)
\* the last call was one that changes the store, or none was made yet
AfterMutation == ret.op \in {"init", "add_document", "remove_document"}

NextSearch ==
    \/ \E d \in DocIds, texts \in SeqUpTo(IngestTexts, MaxChunks) \ {<<>>} :
            AfterMutation /\ chunk_counter + Len(texts) <= MaxVectors
                          /\ AddDocument(d, texts, TRUE)
    \/ \E d \in DocIds : AfterMutation /\ RemoveDocument(d)
    \/ \E q \in Questions, k \in 0..MaxK, D \in DocFilters :
            AfterMutation /\ Search(q, k, D)

SpecSearch == Init /\ [][NextSearch]_vars

(***************************************************************************)
(* The store under query and comparison.  The embedding collaborator       *)
(* answers during ingestion and may fail during a query or a comparison;   *)
(* the generation collaborator may fail.  A query or a comparison leaves   *)
(* the store as it is: the calls that follow it are taken from the state   *)
(* before it.                                                              *)
(***************************************************************************)
NextQuery ==
    \/ \E d \in DocIds, texts \in SeqUpTo(IngestTexts, MaxChunks) \ {<<>>} :
            AfterMutation /\ chunk_counter + Len(texts) <= MaxCounter
                          /\ AddDocument(d, texts, TRUE)
    \/ \E d \in DocIds : AfterMutation /\ RemoveDocument(d)
    \/ \E q \in Questions, D \in DocFilters, m \in 0..MaxSources,
          embed_ok \in BOOLEAN, llm_ok \in BOOLEAN :
            AfterMutation /\ Query(q, D, m, embed_ok, llm_ok)
    \/ \E q \in Questions, ids \in SeqUpTo(DocIds, MaxCompared),
          embed_ok \in BOOLEAN, llm_ok \in BOOLEAN :
            AfterMutation /\ CompareDocuments(q, ids, embed_ok, llm_ok)

SpecQuery == Init /\ [][NextQuery]_vars

(***************************************************************************)
(* The store and its snapshot on disk: ingestion, removal, save, load and  *)
(* the construction of a new store over the same files.  The embedding     *)
(* collaborator answers; there is one document and its chunks all hold one *)
(* text: save and load look at neither.  add_document is not called once   *)
(* the counter or the index has reached MaxCounter.                        *)
(***************************************************************************)
\* the text of the chunks
SnapshotTexts == {"ml"}

\* the one document
SnapshotDocIds == {"d"}

NextSnapshot ==
    \/ \E d \in SnapshotDocIds, texts \in SeqUpTo(SnapshotTexts, MaxChunks) \ {<<>>} :
            /\ chunk_counter + Len(texts) <= MaxCounter
            /\ Len(index) + Len(texts) <= MaxCounter
            /\ AddDocument(d, texts, index_d = EmbeddingDimension)
    \/ \E d \in SnapshotDocIds : RemoveDocument(d)
    \/ \E ok \in BOOLEAN : Save(ok)
    \/ Load
    \/ \E d \in Dimensions : Construct(d)

SpecSnapshot == Init /\ [][NextSnapshot]_vars

(***************************************************************************)
(* The diversity filter alone, on every candidate list of the bounded set. *)
(***************************************************************************)
\* the texts of the candidates
CandidateTexts == {"ml", "ml2", "mlshort", "cook", "fin", "empty"}

InitDiversity ==
    /\ NothingElse
    /\ documents = <<>>
    /\ chunks = <<>>
    /\ chunk_counter = 0
    /\ index = <<>>
    /\ appended = <<>>
    /\ assigned = <<>>
    /\ failures = 0
    /\ \E texts \in SeqUpTo(CandidateTexts, MaxCandidates) :
          ret = [op |-> "candidates", chunks |-> [i \in DOMAIN texts |-> [text |-> texts[i]]]]

NextDiversity == EnsureDiversityCall

SpecDiversity == InitDiversity /\ [][NextDiversity]_vars

(***************************************************************************)
(* The quality score alone, on every pair of texts under every question.   *)
(***************************************************************************)
\* the questions: those of the searches, one without a keyword and one that
\* holds a keyword twice
QualityQuestions == Questions \cup {"q_it", "q_twice"}

InitQuality ==
    /\ NothingElse
    /\ documents = <<>>
    /\ chunks = <<>>
    /\ chunk_counter = 0
    /\ index = <<>>
    /\ appended = <<>>
    /\ assigned = <<>>
    /\ failures = 0
    /\ \E t1 \in TextNames, t2 \in TextNames, q \in QualityQuestions :
          ret = [op |-> "scored_pair", question |-> q,
                 chunks |-> <<[text |-> t1], [text |-> t2]>>]

NextQuality == CalculateQualityScoreCall

SpecQuality == InitQuality /\ [][NextQuality]_vars

(***************************************************************************)
(* The confidence alone, on the candidate lists the ranker can hand over:  *)
(* texts of at least 50 characters with their quality score under one      *)
(* question and a similarity from the threshold up to a cosine of 1.       *)
(***************************************************************************)
\* the texts of the candidates: the worst and the best quality, and one between
RankedTexts == {"low_rep", "ml", "high_all"}

\* the similarities of the candidates, in hundredths
RankedScores == {MinRelevanceScore, 100}

RankedCandidates(q) ==
    {[text |-> t, score |-> sc, quality_score |-> CalculateQualityScore(t, q)] :
        t \in RankedTexts, sc \in RankedScores}

InitConfidence ==
    /\ NothingElse
    /\ documents = <<>>
    /\ chunks = <<>>
    /\ chunk_counter = 0
    /\ index = <<>>
    /\ appended = <<>>
    /\ assigned = <<>>
    /\ failures = 0
    /\ \E q \in QualityQuestions :
          \E cs \in SeqUpTo(RankedCandidates(q), MaxRanked) :
              ret = [op |-> "ranked", chunks |-> cs]

NextConfidence == CalculateConfidenceCall

SpecConfidence == InitConfidence /\ [][NextConfidence]_vars

(***************************************************************************)
(* The store called from two threads at once.  The class holds no lock:    *)
(* a call is a sequence of steps, each one read or one write of the        *)
(* store's fields together with the work on locals around it, and the      *)
(* steps of the two calls interleave in any order.  calls[t] holds the     *)
(* position and the locals of the call of thread t.  The embedding         *)
(* collaborator answers.  Where the model takes several statements in one  *)
(* step (the loops of search and of remove_document), every behaviour of   *)
(* the model is still a behaviour of the code.                             *)
(***************************************************************************)
\* the document ids and the chunk lists of the concurrent calls
ConcurrentDocIds == {"d", "d_1"}

ConcurrentChunkLists == SeqUpTo({"ml"}, MaxChunks) \ {<<>>}

\* the question of the concurrent searches
ConcurrentQuestions == {"q_ai"}

Idle(t) == calls[t].pc = "idle"

\* the chunks the add_document call of thread t has still to process
Pending(t) == IF calls[t].pc \in {"for", "load", "store", "record"}
              THEN Len(calls[t].chunks) ELSE 0

RECURSIVE PendingAll(_)
PendingAll(T) ==
    IF T = {} THEN 0
    ELSE LET t == CHOOSE x \in T : TRUE IN Pending(t) + PendingAll(T \ {t})

\* add_document, lines 38-46: the document's record is written, the locals set
AddDocumentEnter(t, d, texts) ==
    /\ Idle(t)
    /\ documents' = DocSet(documents, d, FreshDocument(Len(texts)))
    /\ calls' = [calls EXCEPT ![t] =
                    [pc |-> "for", document_id |-> d, chunks |-> texts,
                     texts |-> <<>>, chunk_ids |-> <<>>]]
    /\ UNCHANGED <<chunks, chunk_counter, index, appended, assigned, failures, ret>>
    /\ UNCHANGED persistence

\* line 49: chunk_id = f"{document_id}_{self.chunk_counter}"
AddDocumentChunkId(t) ==
    /\ calls[t].pc = "for" /\ calls[t].chunks /= <<>>
    /\ calls' = [calls EXCEPT ![t] =
                    [pc |-> "load", chunk_id |-> ChunkId(calls[t].document_id, chunk_counter)]
                    @@ calls[t]]
    /\ assigned' = Append(assigned,
                      [id |-> ChunkId(calls[t].document_id, chunk_counter), n |-> chunk_counter])
    /\ UNCHANGED <<documents, chunks, chunk_counter, index, appended, failures, ret>>
    /\ UNCHANGED persistence

\* line 50, self.chunk_counter += 1: the attribute is read ...
AddDocumentCounterLoad(t) ==
    /\ calls[t].pc = "load"
    /\ calls' = [calls EXCEPT ![t] = [pc |-> "store", counter |-> chunk_counter] @@ calls[t]]
    /\ UNCHANGED <<documents, chunks, chunk_counter, index, appended, assigned, failures, ret>>
    /\ UNCHANGED persistence

\* ... and written, one more than was read
AddDocumentCounterStore(t) ==
    /\ calls[t].pc = "store"
    /\ chunk_counter' = NextCounter(calls[t].counter, 1)
    /\ calls' = [calls EXCEPT ![t] = [pc |-> "record"] @@ calls[t]]
    /\ UNCHANGED <<documents, chunks, index, appended, assigned, failures, ret>>
    /\ UNCHANGED persistence

\* lines 53-61: the chunk record is stored, the text and the id join the locals
AddDocumentRecord(t) ==
    LET c == calls[t] IN
    /\ c.pc = "record"
    /\ chunks' = DictSet(chunks, [chunk_id |-> c.chunk_id, document_id |-> c.document_id,
                                  text |-> Head(c.chunks), chunk_index |-> Len(c.texts)])
    /\ calls' = [calls EXCEPT ![t] =
                    [pc |-> "for", document_id |-> c.document_id, chunks |-> Tail(c.chunks),
                     texts |-> Append(c.texts, Head(c.chunks)),
                     chunk_ids |-> Append(c.chunk_ids, c.chunk_id)]]
    /\ UNCHANGED <<documents, chunk_counter, index, appended, assigned, failures, ret>>
    /\ UNCHANGED persistence

\* lines 64-71, after the loop: the texts are embedded and their vectors appended
AddDocumentIndexAdd(t) ==
    LET c == calls[t] IN
    /\ c.pc = "for" /\ c.chunks = <<>>
    /\ index' = IndexAdd(index, c.texts)
    /\ appended' = appended \o
          [i \in DOMAIN c.texts |->
              [chunk_id |-> c.chunk_ids[i], document_id |-> c.document_id,
               text |-> c.texts[i], chunk_index |-> i - 1]]
    /\ calls' = [calls EXCEPT ![t] = [pc |-> "extend"] @@ c]
    /\ UNCHANGED <<documents, chunks, chunk_counter, assigned, failures, ret>>
    /\ UNCHANGED persistence

\* lines 74-76: the ids join the chunk_ids of the document's current record, a
\* KeyError when a concurrent remove_document has deleted it
AddDocumentExtend(t) ==
    LET c == calls[t]
        d == c.document_id
    IN
    /\ c.pc = "extend"
    /\ IF d \in DOMAIN documents
       THEN /\ documents' = DocSet(documents, d,
                    [documents[d] EXCEPT !.chunk_ids = documents[d].chunk_ids \o c.chunk_ids])
            /\ ret' = [op |-> "add_document", document_id |-> d,
                       out |-> "return", value |-> Len(c.texts)]
       ELSE /\ documents' = documents
            /\ ret' = [op |-> "add_document", document_id |-> d,
                       out |-> "raise", value |-> 0]
    /\ calls' = [calls EXCEPT ![t] = [pc |-> "idle"]]
    /\ UNCHANGED <<chunks, chunk_counter, index, appended, assigned, failures>>
    /\ UNCHANGED persistence

\* search, lines 91-96: the question is embedded and the index scanned
SearchScan(t, q, k) ==
    LET kk == Min(k * 2, Len(index)) IN
    /\ Idle(t)
    /\ \E hits \in IF kk = 0 THEN {<<>>} ELSE IndexSearch(index, q, kk) :
          calls' = [calls EXCEPT ![t] =
                       [pc |-> "keys", question |-> q, k |-> k, kk |-> kk, hits |-> hits]]
    /\ UNCHANGED <<documents, chunks, chunk_counter, index, appended, assigned, failures, ret>>
    /\ UNCHANGED persistence

\* search, lines 99-124: the key list is taken and the hits are looked up in it
SearchCollect(t) ==
    LET c == calls[t]
        o == SearchLoop(chunks, index, c.question, c.k, None, c.hits, <<>>)
    IN
    /\ c.pc = "keys"
    /\ ret' = [op |-> "search", question |-> c.question, k |-> c.k, document_ids |-> None,
               scanned |-> c.kk, out |-> o.out, value |-> o.value]
    /\ calls' = [calls EXCEPT ![t] = [pc |-> "idle"]]
    /\ UNCHANGED <<documents, chunks, chunk_counter, index, appended, assigned, failures>>
    /\ UNCHANGED persistence

\* remove_document, lines 143-151: the membership test and the loop over the
\* document's chunk_ids
RemoveDocumentChunks(t, d) ==
    /\ Idle(t)
    /\ IF d \notin DOMAIN documents
       THEN /\ UNCHANGED <<chunks, calls>>
            /\ ret' = [op |-> "remove_document", document_id |-> d,
                       out |-> "return", value |-> FALSE]
       ELSE /\ chunks' = RemoveChunks(chunks, d, documents[d].chunk_ids)
            /\ calls' = [calls EXCEPT ![t] = [pc |-> "del", document_id |-> d]]
            /\ ret' = ret
    /\ UNCHANGED <<documents, chunk_counter, index, appended, assigned, failures>>
    /\ UNCHANGED persistence

\* remove_document, lines 154-159: del self.documents[document_id], a KeyError
\* when a concurrent remove_document has deleted it
RemoveDocumentDel(t) ==
    LET d == calls[t].document_id IN
    /\ calls[t].pc = "del"
    /\ IF d \in DOMAIN documents
       THEN /\ documents' = DocDel(documents, d)
            /\ ret' = [op |-> "remove_document", document_id |-> d,
                       out |-> "return", value |-> TRUE]
       ELSE /\ documents' = documents
            /\ ret' = [op |-> "remove_document", document_id |-> d,
                       out |-> "raise", value |-> FALSE]
    /\ calls' = [calls EXCEPT ![t] = [pc |-> "idle"]]
    /\ UNCHANGED <<chunks, chunk_counter, index, appended, assigned, failures>>
    /\ UNCHANGED persistence

NextConcurrent ==
    \/ \E t \in Threads, d \in ConcurrentDocIds, texts \in ConcurrentChunkLists :
            /\ Len(assigned) + PendingAll(Threads) + Len(texts) <= MaxCounter
            /\ AddDocumentEnter(t, d, texts)
    \/ \E t \in Threads : AddDocumentChunkId(t)
    \/ \E t \in Threads : AddDocumentCounterLoad(t)
    \/ \E t \in Threads : AddDocumentCounterStore(t)
    \/ \E t \in Threads : AddDocumentRecord(t)
    \/ \E t \in Threads : AddDocumentIndexAdd(t)
    \/ \E t \in Threads : AddDocumentExtend(t)
    \/ \E t \in Threads, q \in ConcurrentQuestions, k \in 1..MaxK : SearchScan(t, q, k)
    \/ \E t \in Threads : SearchCollect(t)
    \/ \E t \in Threads, d \in ConcurrentDocIds : RemoveDocumentChunks(t, d)
    \/ \E t \in Threads : RemoveDocumentDel(t)

SpecConcurrent == Init /\ [][NextConcurrent]_vars

(***************************************************************************)
(* Queries on a store of up to ten chunks: one document is ingested, its   *)
(* chunk list any selection of the texts below, and queried with           *)
(* max_sources up to MaxRequested.  The similarities under the question    *)
(* differ, so the index scan has one order.                                *)
(***************************************************************************)
\* the texts of the large store, in ingestion order: seven of at least 50
\* characters that are relevant and mutually diverse (ml, high_ai, high_all,
\* low_plain, low_half, fin, high_rate), ml2 and low_bonus, which repeat ml and
\* low_plain but for a few words, and cook, below the relevance threshold
SourceTexts == <<"ml", "ml2", "high_ai", "high_all", "low_plain", "low_bonus",
                 "low_half", "fin", "high_rate", "cook">>

\* the lists that keep some elements of s, in order
RECURSIVE SubLists(_)
SubLists(s) ==
    IF s = <<>> THEN {<<>>}
    ELSE LET rest == SubLists(Tail(s))
         IN  rest \cup {<<Head(s)>> \o r : r \in rest}

SourceChunkLists == SubLists(SourceTexts) \ {<<>>}

NextSources ==
    \/ \E texts \in SourceChunkLists :
            ret.op = "init" /\ AddDocument("d", texts, TRUE)
    \/ \E m \in 1..MaxRequested :
            ret.op = "add_document" /\ Query("q_ai", None, m, TRUE, TRUE)

SpecSources == Init /\ [][NextSources]_vars

(***************************************************************************)
(* Properties of the store.                                                *)
(***************************************************************************)
\* the store's chunk records and the index line up: record p is the chunk whose
\* vector is at position p
Aligned ==
    /\ Len(chunks) = Len(index)
    /\ \A p \in DOMAIN chunks : chunks[p] = appended[p]

\* C1: every hit search reports for index position p carries the chunk id, the
\* document id and the text of the chunk whose vector was appended at position p
C1_HitIsAppendedChunk ==
    Returned("search") =>
        \A i \in DOMAIN ret.value :
            LET hit == ret.value[i] IN
            /\ hit.chunk_id = appended[hit.position].chunk_id
            /\ hit.document_id = appended[hit.position].document_id
            /\ hit.text = appended[hit.position].text

\* C2: the chunk ids assigned are pairwise distinct and their counters strictly
\* increase in assignment order, removals and re-additions included
C2_IdsUniqueIncreasing ==
    \A i, j \in DOMAIN assigned :
        i < j => assigned[i].id /= assigned[j].id /\ assigned[i].n < assigned[j].n

C2_Witness ==
    /\ Len(assigned) = 2
    /\ ret.op = "add_document"
    /\ \E r \in Range(appended) :
          r.document_id = ret.document_id /\ ~HasKey(chunks, r.chunk_id)

\* C3: while every add_document call has succeeded, the index size equals the
\* chunk counter, the number of chunks ever added; a removal leaves both alone
C3_IndexSizeIsCounter ==
    failures = 0 => Len(index) = chunk_counter /\ Len(index) = Len(assigned)

C3_Witness ==
    /\ failures = 0
    /\ ret.op = "remove_document" /\ ret.value = TRUE
    /\ Len(index) = 2 /\ Len(chunks) < 2

\* C4: remove_document of a present document returns True, deletes its metadata
\* and the chunk records its chunk_ids list, and leaves every other document,
\* every other chunk record, the counter and the index as they were; of an
\* absent document it returns False and changes nothing
C4_RemoveFrame ==
    [][ret'.op = "remove_document" =>
        LET d == ret'.document_id IN
        IF d \in DOMAIN documents
        THEN LET ids == Range(documents[d].chunk_ids) IN
             /\ ret'.value = TRUE
             /\ DOMAIN documents' = DOMAIN documents \ {d}
             /\ \A x \in DOMAIN documents' : documents'[x] = documents[x]
             /\ \A id \in ids : ~HasKey(chunks', id)
             /\ \A r \in Range(chunks) : r.chunk_id \notin ids => r \in Range(chunks')
             /\ Range(chunks') \subseteq Range(chunks)
             /\ chunk_counter' = chunk_counter
             /\ index' = index
        ELSE /\ ret'.value = FALSE
             /\ UNCHANGED store]_vars

C4_Witness ==
    /\ ret.op = "remove_document" /\ ret.value = TRUE
    /\ documents /= <<>>
    /\ \E r \in Range(chunks) : r.document_id = ret.document_id

\* C5: while no call has failed, add_document, given at least one chunk, returns len(chunks) and the
\* document's chunk_ids afterwards are those it had before the call (none for a
\* new document) followed by the new ids in chunk order
C5_AddAppendsIds ==
    [][(/\ ret'.op = "add_document" /\ ret'.out = "return"
        /\ chunk_counter' > chunk_counter /\ failures' = 0) =>
        LET d == ret'.document_id
            n == chunk_counter' - chunk_counter
            before == IF d \in DOMAIN documents THEN documents[d].chunk_ids ELSE <<>>
        IN  /\ ret'.value = n
            /\ documents'[d].chunk_ids =
                  before \o [i \in 1..n |-> ChunkId(d, chunk_counter + i - 1)]]_vars

\* position of a chunk id in the assignment history
AssignedAt(id) == CHOOSE i \in DOMAIN assigned : assigned[i].id = id

\* C6: get_document_chunks never raises: every id a present document lists has a
\* chunk record; it returns the empty list for an unknown document and the
\* listed chunks, in ingestion order, for a present one
C6_GetChunksTotal ==
    /\ \A d \in DOMAIN documents :
          \A id \in Range(documents[d].chunk_ids) : HasKey(chunks, id)
    /\ ret.op = "get_document_chunks" =>
          /\ ret.out = "return"
          /\ ret.document_id \notin DOMAIN documents => ret.value = <<>>
          /\ ret.document_id \in DOMAIN documents =>
                /\ Len(ret.value) = Len(documents[ret.document_id].chunk_ids)
                /\ \A i \in DOMAIN ret.value :
                      /\ ret.value[i].chunk_id = documents[ret.document_id].chunk_ids[i]
                      /\ \E r \in Range(chunks) :
                            /\ r.chunk_id = ret.value[i].chunk_id
                            /\ r.document_id = ret.document_id
                            /\ r.text = ret.value[i].text
                /\ \A i, j \in DOMAIN ret.value :
                      i < j => AssignedAt(ret.value[i].chunk_id) < AssignedAt(ret.value[j].chunk_id)

C6_Witness ==
    /\ ret.op = "get_document_chunks"
    /\ ret.value /= <<>>
    /\ \E r \in Range(chunks) :
          /\ r.document_id = ret.document_id
          /\ \A i \in DOMAIN ret.value : ret.value[i].chunk_id /= r.chunk_id

\* C7: search(q, k) on an index of size n returns at most min(k, n) results, in
\* non-increasing score order, with or without a document filter
C7_SearchBounded ==
    Returned("search") =>
        /\ Len(ret.value) <= Min(ret.k, Len(index))
        /\ \A i, j \in DOMAIN ret.value : i < j => ret.value[i].score >= ret.value[j].score

C7_Witness ==
    /\ Returned("search")
    /\ Filters(ret.document_ids)
    /\ Len(ret.value) = 2 /\ Len(index) = 3
    /\ ret.value[1].score > ret.value[2].score

\* the chunks of the documents in D, as the store holds them
ChunksOf(D) == {r \in Range(chunks) : r.document_id \in Range(D.ids)}

\* no chunk of the documents in D scores the same as a chunk of another document
NoTieAcross(q, D) ==
    \A r \in ChunksOf(D), o \in Range(chunks) \ ChunksOf(D) :
        Similarity(q, r.text) /= Similarity(q, o.text)

\* C8: on a store whose records and index line up, a search restricted to the
\* documents D returns the k best-scoring chunks of D (all of them when D has
\* fewer than k), whatever the other documents hold
C8_FilteredSearchIsTopK ==
    (/\ Returned("search")
     /\ Filters(ret.document_ids)
     /\ Aligned
     /\ NoTieAcross(ret.question, ret.document_ids)) =>
        LET got == {ret.value[i].chunk_id : i \in DOMAIN ret.value}
            all == ChunksOf(ret.document_ids)
        IN  /\ Len(ret.value) = Min(ret.k, Cardinality(all))
            /\ got \subseteq {r.chunk_id : r \in all}
            /\ \A r \in all : r.chunk_id \notin got =>
                  \A i \in DOMAIN ret.value :
                      ret.value[i].score >= Similarity(ret.question, r.text)

(***************************************************************************)
(* Properties of the ranker.                                               *)
(***************************************************************************)
\* 0.6 x similarity + 0.4 x quality_score of a ranked candidate, in thousandths
\* times the denominator of its quality score
Blend(c) == <<6 * c.score * c.quality_score[2] + 400 * c.quality_score[1],
              1000 * c.quality_score[2]>>

\* C9: a query with max_sources = m returns at most m sources, one per ranked
\* candidate and in their order, and the candidates are in non-increasing order
\* of 0.6 x similarity + 0.4 x quality_score
C9_SourcesBoundedSorted ==
    Returned("query") =>
        /\ Len(ret.sources) <= ret.max_sources
        /\ Len(ret.sources) = Len(ret.ranked)
        /\ \A i \in DOMAIN ret.sources :
              /\ ret.sources[i].document_id = ret.ranked[i].document_id
              /\ ret.sources[i].chunk_content = ret.ranked[i].text
              /\ ret.sources[i].relevance = ret.ranked[i].score
              /\ ret.ranked[i].quality_score = CalculateQualityScore(ret.ranked[i].text, ret.question)
        /\ \A i, j \in DOMAIN ret.ranked :
              i < j => ~FracLess(Blend(ret.ranked[i]), Blend(ret.ranked[j]))

C9_Witness ==
    /\ Returned("query")
    /\ Len(ret.sources) = 2 /\ ret.max_sources = 2
    /\ ret.sources[1].relevance < ret.sources[2].relevance
    /\ FracLess(Blend(ret.ranked[2]), Blend(ret.ranked[1]))

\* 5 |A n B| > 4 |A u B| for the word sets of two texts, both non-empty:
\* a Jaccard similarity above 0.8
JaccardAbove(t1, t2) ==
    LET a == {TextRuns(t1)[i][1] : i \in DOMAIN TextRuns(t1)}
        b == {TextRuns(t2)[i][1] : i \in DOMAIN TextRuns(t2)}
    IN  a /= {} /\ b /= {} /\ 5 * Cardinality(a \cap b) > 4 * Cardinality(a \cup b)

\* C10: the list _ensure_diversity returns holds no two candidates whose
\* word-set Jaccard similarity exceeds 0.8, and it starts with the first
\* candidate of a non-empty input
C10_DiverseAndFirstKept ==
    ret.op = "_ensure_diversity" =>
        /\ \A i, j \in DOMAIN ret.value :
              i /= j => ~JaccardAbove(ret.value[i].text, ret.value[j].text)
        /\ ret.chunks /= <<>> => ret.value /= <<>> /\ ret.value[1] = ret.chunks[1]

C10_Witness ==
    /\ ret.op = "_ensure_diversity"
    /\ Len(ret.chunks) = 5 /\ Len(ret.value) = 4
    /\ ret.chunks[2].text = "ml2" /\ ret.value[1].text = "ml" /\ ret.value[2].text = "mlshort"

(***************************************************************************)
(* Properties of the quality score.                                        *)
(***************************************************************************)
\* C11: the quality score of a chunk whose text has at least 50 characters
\* lies in [0, 1], under every question
C11_QualityInUnitInterval ==
    ret.op = "_calculate_quality_score" =>
        \A i \in DOMAIN ret.chunks :
            CharLen(ret.chunks[i].text) >= MinTextChars =>
                /\ ~FracLess(ret.value[i], <<0, 1>>)
                /\ ~FracLess(<<1, 1>>, ret.value[i])

\* a chunk of 40 words with no terminal punctuation and none of the question's
\* keywords
LowChunk(t, q) ==
    /\ WordCount(t) = 40
    /\ ~EndsTerminal(t)
    /\ \A i \in DOMAIN ExtractKeywords(q) : ExtractKeywords(q)[i] \notin TextWords(t)

\* a chunk of 150 words that ends in a period (the terminal tokens of the texts
\* all end in one) and holds every keyword of the question
HighChunk(t, q) ==
    /\ WordCount(t) = 150
    /\ EndsTerminal(t)
    /\ \A i \in DOMAIN ExtractKeywords(q) : ExtractKeywords(q)[i] \in TextWords(t)

\* C20: under one question, a chunk of 40 words with no terminal punctuation and
\* no keyword scores strictly below a chunk of 150 words that ends in a period
\* and holds every keyword, whatever density, phrase and numeral contribute
C20_LowBelowHigh ==
    ret.op = "_calculate_quality_score" =>
        \A i, j \in DOMAIN ret.chunks :
            (LowChunk(ret.chunks[i].text, ret.question)
                /\ HighChunk(ret.chunks[j].text, ret.question))
            => FracLess(ret.value[i], ret.value[j])

C20_Witness ==
    /\ ret.op = "_calculate_quality_score"
    /\ ret.question = "q_rate"
    /\ ret.chunks[1].text = "low_bonus" /\ LowChunk("low_bonus", "q_rate")
    /\ ret.chunks[2].text = "high_rate" /\ HighChunk("high_rate", "q_rate")
    /\ ret.value[1] = <<1, 2>>
    /\ FracLess(ret.value[2], <<1, 1>>)

(***************************************************************************)
(* Properties of the responses.                                            *)
(***************************************************************************)
\* C12: the confidence computed for a candidate list lies in [0, 1] (0 to 1000
\* thousandths) and is exactly 0 for the empty list
C12_ConfidenceInUnitInterval ==
    ret.op = "_calculate_confidence" =>
        /\ 0 <= ret.value /\ ret.value <= 1000
        /\ ret.chunks = <<>> => ret.value = 0

C12_Witness ==
    /\ ret.op = "_calculate_confidence"
    /\ Len(ret.chunks) = 3
    /\ \A i \in DOMAIN ret.chunks :
          ret.chunks[i].score = 100 /\ ret.chunks[i].quality_score = <<1, 1>>
    /\ ret.value = 1000

\* C13: when the search of a query has returned and the ranking leaves no
\* candidate, the query returns the insufficient-information response with
\* confidence 0 and no sources, and the generation collaborator is not called;
\* it is called at most once per query, and only after a non-empty ranking
C13_EmptyRankingNoGeneration ==
    ret.op = "query" =>
        /\ (ret.search_out = "return" /\ ret.ranked = <<>>) =>
              /\ ret.out = "return"
              /\ ret.answer = "insufficient"
              /\ ret.confidence = 0
              /\ ret.sources = <<>>
              /\ ~ret.error
              /\ ret.generate_calls = 0
        /\ ret.generate_calls <= 1
        /\ ret.generate_calls = 1 => ret.search_out = "return" /\ ret.ranked /= <<>>

C13_Witness ==
    /\ Returned("query")
    /\ ret.embed_ok /\ ret.max_sources >= 1 /\ ret.document_ids.is_none
    /\ index /= <<>> /\ Aligned
    /\ ret.ranked = <<>> /\ ret.answer = "insufficient"

\* C14: when the generation collaborator fails in a query or a comparison, the
\* call returns a response with confidence 0, an error detail and the sources
\* of its ranked candidates, those the successful response carries
C14_GenerationFailureDegrades ==
    (ret.op \in {"query", "compare_documents"} /\ ~ret.llm_ok /\ ret.generate_calls = 1) =>
        /\ ret.out = "return"
        /\ ret.answer = "error"
        /\ ret.error
        /\ ret.confidence = 0
        /\ ret.ranked /= <<>>
        /\ ret.sources = FormatSources(ret.ranked)

C14_Witness ==
    /\ Returned("query")
    /\ ~ret.llm_ok /\ ret.generate_calls = 1
    /\ Len(ret.sources) = 2 /\ ret.error

\* the comparison got far enough to search
ComparisonSearches == ret.op = "compare_documents" /\ ~TooFewDocuments(ret.document_ids)

\* C15: when the embedding collaborator fails during a query or a comparison,
\* the call raises: it returns no response and calls no generation
C15_EmbeddingFailurePropagates ==
    ((ret.op = "query" \/ ComparisonSearches) /\ ~ret.embed_ok) =>
        /\ ret.out = "raise"
        /\ ret.generate_calls = 0

C15_Witness ==
    /\ ComparisonSearches
    /\ ~ret.embed_ok /\ ret.llm_ok
    /\ ret.out = "raise" /\ ret.search_calls = 1
    /\ Aligned /\ Len(index) = 2

\* C16: compare_documents with fewer than two document ids returns the
\* need-two-documents response with confidence 0, no sources and mode
\* comparison, makes no search, calls no generation and changes no state
C16_TooFewDocuments ==
    [][(ret'.op = "compare_documents" /\ Len(ret'.document_ids) < 2) =>
        /\ ret'.out = "return"
        /\ ret'.answer = "need_two"
        /\ ret'.confidence = 0
        /\ ret'.sources = <<>>
        /\ ret'.mode = "comparison"
        /\ ret'.search_calls = 0
        /\ ret'.generate_calls = 0
        /\ UNCHANGED <<documents, chunks, chunk_counter, index>>]_vars

C16_Witness ==
    /\ ret.op = "compare_documents"
    /\ Len(ret.document_ids) = 1 /\ ret.document_ids[1] \in DOMAIN documents
    /\ ret.answer = "need_two"
    /\ ~ret.embed_ok /\ ~ret.llm_ok

(***************************************************************************)
(* Properties of the snapshot.                                             *)
(***************************************************************************)
\* C17: a load that follows a save that returned returns, and leaves the
\* statistics (total_documents, total_chunks, index_size, dimension), the
\* documents, the chunks and the chunk counter as they were
C17_SaveLoadRoundTrip ==
    [][(Returned("save") /\ ret'.op = "load") =>
        /\ ret'.out = "return"
        /\ GetStats' = GetStats
        /\ documents' = documents
        /\ chunks' = chunks
        /\ chunk_counter' = chunk_counter]_vars

C17_Witness ==
    /\ Returned("load") /\ ret.after_save
    /\ documents /= <<>>
    /\ chunk_counter = 2
    /\ GetStats.total_chunks < GetStats.index_size

\* C18: a load of an index file and a ledger file of different dimensions
\* raises, and no load that returns leaves the store with an index of another
\* dimension than the one it records
C18_LoadRejectsMismatch ==
    ret.op = "load" =>
        /\ (disk.faiss.exists /\ disk.pkl.exists /\ disk.faiss.d /= disk.pkl.dimension)
              => ret.out = "raise"
        /\ ret.out = "return" => index_d = dimension

\* no chunk record was removed: every id ever assigned is a key of the chunk dict
NothingRemoved == \A i \in DOMAIN assigned : HasKey(chunks, assigned[i].id)

\* no call is in progress
Quiescent == \A t \in Threads : Idle(t)

\* C19: calls that run at once behave as if they ran one after the other: no two
\* chunks are assigned the same id; once the calls have finished and nothing was
\* removed, record p of the store is the chunk whose vector is at position p; a
\* search of a non-empty index in a store nothing was removed from returns, and
\* each hit carries the chunk whose vector was appended at its position
C19_MutationsSerialized ==
    /\ \A i, j \in DOMAIN assigned : i < j => assigned[i].id /= assigned[j].id
    /\ (Quiescent /\ NothingRemoved) => Aligned
    /\ (ret.op = "search" /\ ret.scanned > 0 /\ NothingRemoved) =>
          /\ ret.out = "return"
          /\ \A i \in DOMAIN ret.value :
                ret.value[i].chunk_id = appended[ret.value[i].position].chunk_id

\* C24: an add_document call that fails in the embedding step leaves documents,
\* chunk records, the chunk counter and the index as they were before the call
C24_FailedAddLeavesStore ==
    [][(ret'.op = "add_document" /\ ret'.out = "raise" /\ failures' = failures + 1) =>
          /\ documents' = documents
          /\ chunks' = chunks
          /\ chunk_counter' = chunk_counter
          /\ index' = index]_vars

\* C25: a search with k >= 1 on a non-empty index returns, removals included
C25_SearchNeverRaises ==
    (ret.op = "search" /\ ret.k >= 1 /\ Len(index) >= 1) => ret.out = "return"

\* the present documents that list the chunk id
Listing(id) ==
    {d \in DOMAIN documents : \E i \in DOMAIN documents[d].chunk_ids :
                                  documents[d].chunk_ids[i] = id}

RECURSIVE SumChunkIds(_)
SumChunkIds(D) ==
    IF D = {} THEN 0
    ELSE LET d == CHOOSE x \in D : TRUE
         IN  Len(documents[d].chunk_ids) + SumChunkIds(D \ {d})

\* C26: while no add_document call has failed, every chunk record is listed in
\* the chunk_ids of exactly one present document, and total_chunks is the sum of
\* the lengths of the documents' chunk_ids
C26_NoOrphanRecords ==
    failures = 0 =>
        /\ \A p \in DOMAIN chunks : Cardinality(Listing(chunks[p].chunk_id)) = 1
        /\ GetStats.total_chunks = SumChunkIds(DOMAIN documents)

\* C27: a load that raises leaves the index, its dimension, documents, chunks,
\* the chunk counter and the dimension as they were before the call
C27_FailedLoadLeavesStore ==
    [][(ret'.op = "load" /\ ret'.out = "raise") =>
          /\ index' = index
          /\ index_d' = index_d
          /\ documents' = documents
          /\ chunks' = chunks
          /\ chunk_counter' = chunk_counter
          /\ dimension' = dimension]_vars

\* C22: the keyword term of the quality score is 0.4 |K \cap W| / |K|, K the set
\* of the question's keywords and W the word set of the chunk: a keyword the
\* question holds twice counts once
C22_KeywordOverlapOfSet ==
    ret.op = "_calculate_quality_score" =>
        \A i \in DOMAIN ret.chunks :
            LET K == Range(ExtractKeywords(ret.question))
                W == TextWords(ret.chunks[i].text)
            IN  ret.overlap[i] = IF K = {} THEN <<0, 1>>
                                 ELSE Frac(4 * Cardinality(K \cap W), 10 * Cardinality(K))

(***************************************************************************)
(* Properties of the sources of a query.                                   *)
(***************************************************************************)
\* each of the two texts has more than 90% of its words among the other's
ShareNinety(t1, t2) ==
    LET words1 == TextWords(t1)
        words2 == TextWords(t2)
    IN  /\ 10 * Cardinality(words1 \cap words2) > 9 * Cardinality(words1)
        /\ 10 * Cardinality(words1 \cap words2) > 9 * Cardinality(words2)

\* C21: the sources of a query with max_sources >= 2 never hold two chunks that
\* share more than 90% of their words
C21_NoNearDuplicateSources ==
    (Returned("query") /\ ret.max_sources >= 2) =>
        \A i, j \in DOMAIN ret.ranked :
            i /= j => ~ShareNinety(ret.ranked[i].text, ret.ranked[j].text)

\* a query for two or more sources on a store that holds low_plain and
\* low_bonus, which share 37 of their 40 words: one of them is a source, next to
\* another source, and the other is not
C21_Witness ==
    /\ Returned("query") /\ ret.max_sources >= 2
    /\ \E p, r \in DOMAIN chunks : chunks[p].text = "low_plain" /\ chunks[r].text = "low_bonus"
    /\ Len(ret.ranked) >= 2
    /\ \E i \in DOMAIN ret.ranked : ret.ranked[i].text = "low_plain"
    /\ \A i \in DOMAIN ret.ranked : ret.ranked[i].text /= "low_bonus"

\* the raw hits hold n candidates that pass the relevance and length filters and
\* are mutually diverse
HoldsDiverse(hits, n) ==
    \E S \in SUBSET DOMAIN hits :
        /\ Cardinality(S) = n
        /\ \A i \in S : hits[i].score >= MinRelevanceScore /\ CharLen(hits[i].text) >= MinTextChars
        /\ \A i, j \in S : i /= j => ~TooSimilar(hits[i].text, hits[j].text)

\* C23: a query with max_sources = m whose raw hits hold at least m relevant,
\* mutually diverse candidates carries exactly m sources, whatever m
C23_SourcesLimitedByArgument ==
    Returned("query") =>
        \A o \in SearchOutcomes(chunks, index, ret.question, ret.max_sources * 3, ret.document_ids) :
            (o.out = "return" /\ HoldsDiverse(o.value, ret.max_sources)) =>
                Len(ret.sources) = ret.max_sources

====
